---- MODULE Spec2Model ----
(***************************************************************************)
(* A model of gtd.py: the indentation parser (parseindents), the line      *)
(* grammar (Status, Task.parse, Note.parse, the leaf case of parse), the   *)
(* goal-graph normaliser (the work queue of readfile, flatten,             *)
(* normalize_goals) and the abbreviated view.                              *)
(*                                                                         *)
(* Entities are records held in the sequence ents; an entity's identity    *)
(* (Python object identity) is its index in ents, and 0 stands for None.   *)
(* A shell word (an element of shlex.split) is a sequence of characters.   *)
(***************************************************************************)
EXTENDS Integers, Sequences, FiniteSets, TLC

VARIABLES
    ents,     \* every Task and Goal object created so far
    d,        \* readfile's index: description -> entity (0: not in d)
    queue,    \* readfile's work queue
    lst,      \* readfile's result list
    flat,     \* the node set flatten returns and normalize_goals sweeps
    pc,       \* position in the pipeline of main
    pass,     \* 1: the run of main; 2: the normaliser applied once more
    file,     \* the lines as written: description and reasons r1 .. rk
    first,    \* ents as the first application of the normaliser left it
    shown,    \* the sequence abbreviated yields
    atoms,    \* the shell words of the line handed to a parse method
    parenttask, \* the parent task handed to it, or None
    entity,   \* what the parse method returned or raised
    f,        \* the marker stream handed to parseindents
    tree      \* what parseindents returned or raised

vars == <<ents, d, queue, lst, flat, pc, pass, file, first, shown,
          atoms, parenttask, entity, f, tree>>

---------------------------------------------------------------------------
(* Bounds of the model.                                                    *)

\* the number of task lines of a file
MaxTasks == 3
\* the number of "in order to" clauses of a file, all lines together
MaxClauses == 4
\* the descriptions a file may use; line i describes the task NameSeq[i]
NameSeq == <<"a", "b", "g", "h">>
Names == {NameSeq[i] : i \in 1..Len(NameSeq)}

---------------------------------------------------------------------------
(* Sequences as Python lists.                                              *)

Last(s) == s[Len(s)]
Front(s) == SubSeq(s, 1, Len(s) - 1)
Range(s) == {s[i] : i \in 1..Len(s)}
\* the list left as it was collected
NotReversed(s) == s

\* list.reverse()
Reverse(s) == [i \in 1..Len(s) |-> s[Len(s) + 1 - i]]
\* the orders in which a set may be iterated
Perms(S) == {p \in [1..Cardinality(S) -> S] : \A i, j \in 1..Cardinality(S) : p[i] = p[j] => i = j}

---------------------------------------------------------------------------
(* Strings are sequences of characters; None and the exceptions are        *)
(* records of their own.                                                   *)

None == [kind |-> "None"]
ParseException == [kind |-> "ParseException"]
IndexError == [kind |-> "IndexError"]
AssertionError == [kind |-> "AssertionError"]
Exception == [kind |-> "Exception"]

\* a[i:j] of Python, i and j counted from 0 and j cut to the length
Slice(a, i, j) == SubSeq(a, i + 1, IF j < Len(a) THEN j ELSE Len(a))
\* a[i:]
From(a, i) == SubSeq(a, i + 1, Len(a))

\* str.lower, on the letters the model's words use
Lower(string) ==
    [i \in 1..Len(string) |->
        CASE string[i] = "D" -> "d"
          [] string[i] = "N" -> "n"
          [] OTHER -> string[i]]

\* str.startswith
StartsWith(string, prefix) ==
    Len(string) >= Len(prefix) /\ SubSeq(string, 1, Len(prefix)) = prefix

---------------------------------------------------------------------------
(* Status, Task, Goal and Note objects.                                    *)

\* Status.parse: the text between the brackets, or ParseException
Status_parse(string) ==
    IF StartsWith(string, <<"[">>) /\ string # <<>> /\ string[Len(string)] = "]"
    THEN [kind |-> "Status", status |-> Slice(string, 1, Len(string) - 1)]
    ELSE ParseException

\* Status.instance
Status_instance(string) == Status_parse(string) # ParseException

\* Status.done
StatusDone(status) ==
    Lower(status) \in {<<"d", "o", "n", "e">>,
                       <<"c", "o", "m", "p", "l", "e", "t", "e">>,
                       <<"f", "i", "n", "i", "s", "h", "e", "d">>}

\* Task.__init__; a status of None becomes Status(""); display_description
\* is the pair (count shown in front, description), count 0 for none; with
\* a parent the goals are the parent's chain and the assert checks the
\* caller's
Task(description, context, status, goals, parent) ==
    LET own == IF parent # None THEN Append(parent.goals, parent.description) ELSE goals
    IN IF parent # None /\ goals # own /\ goals # <<>>
       THEN AssertionError
       ELSE [kind |-> "Task", description |-> description,
             display_description |-> <<0, description>>, context |-> context,
             status |-> IF status = None THEN <<>> ELSE status.status,
             goals |-> own, parent |-> 0, subtasks |-> <<>>]

\* Goal.__init__
Goal(description, goals) ==
    [kind |-> "Goal", description |-> description,
     display_description |-> <<0, description>>, context |-> None,
     status |-> <<>>, goals |-> goals, parent |-> 0, subtasks |-> <<>>]

\* Note.__init__
Note(note) == [kind |-> "Note", note |-> note]

\* Task.immediate_goal
immediate_goal(e) == IF e.goals # <<>> THEN Last(e.goals) ELSE None

\* d = {x.description : x for x in lst}: a later entry overwrites an earlier
Index(es, order) ==
    [nm \in Names |->
        IF \E i \in 1..Len(order) : es[order[i]].description = nm
        THEN order[CHOOSE i \in 1..Len(order) :
                 /\ es[order[i]].description = nm
                 /\ \A j \in (i + 1)..Len(order) : es[order[j]].description # nm]
        ELSE 0]

---------------------------------------------------------------------------
(* The files the normaliser is run on: n task lines, line i being          *)
(*   Do <NameSeq[i]> in order to r1 ... in order to rk [status]            *)
(* with the reasons drawn from Names.                                      *)

RECURSIVE SumTo(_, _)
SumTo(lens, i) == IF i = 0 THEN 0 ELSE lens[i] + SumTo(lens, i - 1)

\* the reasons of line i, cut out of the clauses of the whole file
ReasonsOf(all, lens, i) == SubSeq(all, SumTo(lens, i - 1) + 1, SumTo(lens, i))

\* the ways to share the clauses of a file among its n lines
Shares(n, clauses) == {l \in [1..n -> 0..clauses] : SumTo(l, n) = clauses}

File(n, all, lens, st) ==
    [i \in 1..n |-> [description |-> NameSeq[i],
                     reasons |-> ReasonsOf(all, lens, i),
                     status |-> st[i]]]

\* the entities Task.parse makes of the lines: goals are the reasons reversed
Parsed(lines) ==
    [i \in 1..Len(lines) |->
        Task(lines[i].description, None, lines[i].status, Reverse(lines[i].reasons), None)]

InitWith(Statuses) ==
    /\ \E n \in 1..MaxTasks, s \in 0..MaxClauses :
          \E all \in [1..s -> Names], lens \in Shares(n, s), st \in [1..n -> Statuses] :
             file = File(n, all, lens, st)
    /\ ents = Parsed(file)
    /\ d = Index(ents, [i \in 1..Len(file) |-> i])
    /\ queue = [i \in 1..Len(file) |-> i]
    /\ lst = <<>>
    /\ flat = {}
    /\ pc = "loop"
    /\ pass = 1
    /\ first = <<>>
    /\ shown = <<>>
    /\ atoms = <<>>
    /\ parenttask = None
    /\ entity = None
    /\ f = <<>>
    /\ tree = None

\* the state of readfile at its line 205, every task without a status
Init == InitWith({None})

---------------------------------------------------------------------------
(* readfile: one turn of the work queue loop.                              *)

\* the comparison turned round
ShorterChain(new, old) == Len(new) < Len(old)

\* any other chain replaces the one known
OtherChain(new, old) == new # old

\* len(v.goals[:-1]) > len(d[v.goals[-1]].goals)
LongerChain(new, old) == Len(new) > Len(old)

\* the goal whose chain grew is not put back on the queue
NotEnqueued(q, goal) == q

\* if goal not in queue: queue.append(goal)
Enqueue(q, goal) == IF goal \in Range(q) THEN q ELSE Append(q, goal)

\* v.parent = d[v.goals[-1]]; v.parent.subtasks.append(v)
Attach(es, v, p) ==
    LET linked == [es EXCEPT ![v].parent = p]
    IN [linked EXCEPT ![p].subtasks = Append(@, v)]

Pop ==
    /\ pc = "loop"
    /\ queue # <<>>
    /\ LET v == Last(queue)
           q == Front(queue)
           goals == ents[v].goals
           g == Last(goals)
       IN /\ IF goals = <<>>
                THEN /\ ents' = ents
                     /\ d' = d
                     /\ queue' = q
                ELSE IF d[g] = 0
                THEN LET goal == Len(ents) + 1
                     IN /\ ents' = Attach(Append(ents, Goal(g, Front(goals))), v, goal)
                        /\ d' = [d EXCEPT ![g] = goal]
                        /\ queue' = Append(q, goal)
                ELSE IF LongerChain(Front(goals), ents[d[g]].goals)
                THEN /\ ents' = Attach([ents EXCEPT ![d[g]].goals = Front(goals)], v, d[g])
                     /\ d' = d
                     /\ queue' = Enqueue(q, d[g])
                ELSE /\ ents' = Attach(ents, v, d[g])
                     /\ d' = d
                     /\ queue' = q
          /\ lst' = Append(lst, v)
          /\ pc' = IF queue' # <<>> THEN "loop" ELSE IF pass = 1 THEN "parsed" ELSE "flat"
          /\ flat' = IF queue' = <<>> /\ pass = 2 THEN Range(lst') ELSE flat
    /\ UNCHANGED <<pass, file, first, shown, atoms, parenttask, entity, f, tree>>

---------------------------------------------------------------------------
(* flatten: every node reachable from the list through subtasks.           *)

RECURSIVE Reach(_, _)
Reach(es, elts) ==
    LET more == elts \cup UNION {Range(es[v].subtasks) : v \in elts}
    IN IF more = elts THEN elts ELSE Reach(es, more)

\* flatten returns list(elts): the set, in an order fixed by whoever
\* iterates it first (Renormalize, Abbreviated)
Flatten ==
    /\ pc = "parsed"
    /\ flat' = Reach(ents, Range(lst))
    /\ pc' = "flat"
    /\ UNCHANGED <<ents, d, queue, lst, pass, file, first, shown, atoms, parenttask, entity, f, tree>>

---------------------------------------------------------------------------
(* normalize_goals.                                                        *)

\* first loop: a parentless c takes as parent the first n of the list with
\* c in n.subtasks, which is any such n since the list order is arbitrary
Adopters(es, nodes, c) ==
    IF es[c].parent = 0 /\ \E n \in nodes : c \in Range(es[n].subtasks)
    THEN {n \in nodes : c \in Range(es[n].subtasks)}
    ELSE {es[c].parent}

RECURSIVE ParentChoices(_, _, _)
ParentChoices(es, nodes, k) ==
    IF k = 0 THEN {<<>>}
    ELSE {Append(p, n) : p \in ParentChoices(es, nodes, k - 1), n \in Adopters(es, nodes, k)}

\* the node reached from p after so many parent links, 0 once past a root
RECURSIVE Up(_, _, _)
Up(es, p, hops) == IF p = 0 \/ hops = 0 THEN p ELSE Up(es, es[p].parent, hops - 1)

\* "while p:" never ends: the parent links from n run into a cycle
Endless(es, n) == Up(es, es[n].parent, Len(es)) # 0

\* second loop: goals.append(p.description); p = p.parent
RECURSIVE Ancestors(_, _)
Ancestors(es, p) ==
    IF p = 0 THEN <<>> ELSE <<es[p].description>> \o Ancestors(es, es[p].parent)

NormalizeGoals ==
    /\ pc = "flat"
    /\ \E p \in ParentChoices(ents, flat, Len(ents)) :
          LET adopted == [i \in 1..Len(ents) |-> [ents[i] EXCEPT !.parent = p[i]]]
          IN IF \E n \in flat : Endless(adopted, n)
             THEN /\ ents' = adopted
                  /\ pc' = "hang"
             ELSE /\ ents' = [i \in 1..Len(ents) |->
                                IF i \in flat
                                THEN [adopted[i] EXCEPT !.goals = Ancestors(adopted, adopted[i].parent)]
                                ELSE adopted[i]]
                  /\ pc' = "done"
    /\ UNCHANGED <<d, queue, lst, flat, pass, file, first, shown, atoms, parenttask, entity, f, tree>>

---------------------------------------------------------------------------
(* The normaliser applied once more to the list the first run returned:    *)
(* index by description, work queue loop, normalize_goals.                 *)

Renormalize ==
    /\ pc = "done"
    /\ pass = 1
    /\ \E order \in Perms(flat) :
          /\ d' = Index(ents, order)
          /\ queue' = order
    /\ lst' = <<>>
    /\ first' = ents
    /\ pass' = 2
    /\ pc' = "loop"
    /\ UNCHANGED <<ents, flat, file, shown, atoms, parenttask, entity, f, tree>>

---------------------------------------------------------------------------
(* abbreviated.                                                            *)

\* tasks(nodes)
tasks(es, nodes) == SelectSeq(nodes, LAMBDA t : es[t].kind = "Task")

\* the branches of abbreviated that yield n
Yields(es, n) ==
    \/ es[n].kind = "Goal"
    \/ es[n].parent # 0 /\ es[es[n].parent].kind = "Goal"
    \/ es[n].parent = 0
    \/ ~StatusDone(es[es[n].parent].status)

\* [d for d in tasks(nodes) if n.description in d.goals]
descendants(es, nodes, n) ==
    SelectSeq(tasks(es, nodes), LAMBDA t : es[n].description \in Range(es[t].goals))

\* n.display_description = "({0}) ".format(len(descendants)+1) + n.description
Annotated(es, nodes, n) ==
    IF /\ es[n].kind = "Task"
       /\ es[n].parent # 0
       /\ es[es[n].parent].kind = "Task"
       /\ ~StatusDone(es[es[n].parent].status)
       /\ StatusDone(es[n].status)
       /\ descendants(es, nodes, n) # <<>>
    THEN [es[n] EXCEPT !.display_description =
              <<Len(descendants(es, nodes, n)) + 1, es[n].description>>]
    ELSE es[n]

Abbreviated ==
    /\ pc = "done"
    /\ pass = 1
    /\ \E nodes \in Perms(flat) :
          /\ shown' = SelectSeq(nodes, LAMBDA n : Yields(ents, n))
          /\ ents' = [i \in 1..Len(ents) |->
                        IF i \in flat THEN Annotated(ents, nodes, i) ELSE ents[i]]
    /\ pc' = "shown"
    /\ UNCHANGED <<d, queue, lst, flat, pass, file, first, atoms, parenttask, entity, f, tree>>

---------------------------------------------------------------------------
(* The pipeline of main: readfile, flatten, normalize_goals.               *)

Next == Pop \/ Flatten \/ NormalizeGoals

Spec == Init /\ [][Next]_vars

\* the interpreter keeps running the loop until it ends
FairSpec == Spec /\ WF_vars(Next)

\* the pipeline, then the normaliser once more
NextTwice == Pop \/ Flatten \/ NormalizeGoals \/ Renormalize

SpecTwice == Init /\ [][NextTwice]_vars

\* the pipeline with done and open tasks, then abbreviated
InitView == InitWith({None, Status_parse(<<"[", "d", "o", "n", "e", "]">>)})

NextView == Pop \/ Flatten \/ NormalizeGoals \/ Abbreviated

SpecView == InitView /\ [][NextView]_vars

---------------------------------------------------------------------------
(* The line grammar: Task.parse, Note.parse and the leaf case of parse,    *)
(* on the shell words shlex.split makes of the line.                       *)

Do == <<"D", "o">>
In == <<"i", "n">>
Order == <<"o", "r", "d", "e", "r">>
To == <<"t", "o">>
InOrderTo == <<In, Order, To>>

\* the while loop of Task.parse over the words after the context
RECURSIVE Clauses(_, _, _)
Clauses(words, reasons, status) ==
    IF words = <<>> THEN [kind |-> "ok", reasons |-> reasons, status |-> status]
    ELSE IF Slice(words, 0, 3) = InOrderTo
    THEN IF Len(words) < 4 THEN IndexError
         ELSE Clauses(From(words, 4), Append(reasons, words[4]), status)
    ELSE IF Status_instance(words[1])
    THEN IF Len(words) > 1 THEN ParseException
         ELSE Clauses(From(words, 1), reasons, Status_parse(words[1]))
    ELSE ParseException

\* Task.parse
Task_parse(words, parent) ==
    IF words = <<>> THEN IndexError
    ELSE IF words[1] # Do THEN ParseException
    ELSE IF Len(words) < 2 THEN IndexError
    ELSE LET plain == Len(words) = 2
                      \/ Slice(words, 2, 5) = InOrderTo
                      \/ Status_instance(words[3])
             context == IF plain THEN None ELSE words[3]
             parsed == Clauses(From(words, IF plain THEN 2 ELSE 3), <<>>, None)
         IN IF parsed.kind # "ok" THEN parsed
            ELSE Task(words[2], context, parsed.status, Reverse(parsed.reasons), parent)

\* Task.instance, on a line that begins with its first word
Task_instance(words) == words # <<>> /\ StartsWith(Lower(words[1]), <<"d", "o">>)

\* Note.parse
Note_parse(words) ==
    IF words = <<>> THEN IndexError
    ELSE IF Lower(words[1]) # <<"n", "o", "t", "e">> THEN ParseException
    ELSE IF Len(words) # 2 THEN ParseException
    ELSE Note(words[2])

\* Note.instance, on a line with a first word
Note_instance(words) == Lower(words[1]) = <<"n", "o", "t", "e">>

\* parse, on a string of the tree; Note.instance raises IndexError on a line
\* without words
parse(words, parent) ==
    IF Task_instance(words) THEN Task_parse(words, parent)
    ELSE IF words = <<>> THEN IndexError
    ELSE IF Note_instance(words) THEN Note_parse(words)
    ELSE ParseException

\* the longest line, counted in pieces after the first word
MaxPieces == 6

\* first words, and the pieces a line is put together from
FirstWords == {Do, <<"d", "o">>, <<"n", "o", "t", "e">>, <<"N", "o", "t", "e">>, <<"x">>}
Pieces == {<<<<"x">>>>, <<<<"y">>>>, <<<<"[", "d", "o", "n", "e", "]">>>>, InOrderTo, <<In>>}

RECURSIVE Join(_)
Join(pieces) == IF pieces = <<>> THEN <<>> ELSE Head(pieces) \o Join(Tail(pieces))

\* a task the line may be nested under
ParentTask == Task(<<"x">>, None, None, <<>>, None)

InitParse ==
    /\ \E word \in FirstWords, k \in 0..MaxPieces :
          \E pieces \in [1..k -> Pieces] : atoms = <<word>> \o Join(pieces)
    /\ pc = "line"
    /\ parenttask = None
    /\ entity = None
    /\ ents = <<>> /\ d = <<>> /\ queue = <<>> /\ lst = <<>> /\ flat = {}
    /\ pass = 1 /\ file = <<>> /\ first = <<>> /\ shown = <<>>
    /\ f = <<>> /\ tree = None

CallTaskParse ==
    /\ pc = "line"
    /\ \E parent \in {None, ParentTask} :
          /\ parenttask' = parent
          /\ entity' = Task_parse(atoms, parent)
    /\ pc' = "Task.parse"
    /\ UNCHANGED <<ents, d, queue, lst, flat, pass, file, first, shown, atoms, f, tree>>

CallNoteParse ==
    /\ pc = "line"
    /\ entity' = Note_parse(atoms)
    /\ pc' = "Note.parse"
    /\ UNCHANGED <<ents, d, queue, lst, flat, pass, file, first, shown, atoms, parenttask, f, tree>>

CallParse ==
    /\ pc = "line"
    /\ \E parent \in {None, ParentTask} :
          /\ parenttask' = parent
          /\ entity' = parse(atoms, parent)
    /\ pc' = "parse"
    /\ UNCHANGED <<ents, d, queue, lst, flat, pass, file, first, shown, atoms, f, tree>>

NextParse == CallTaskParse \/ CallNoteParse \/ CallParse

SpecParse == InitParse /\ [][NextParse]_vars

---------------------------------------------------------------------------
(* parseindents. A tree is a sequence of nodes; a node is a string of the  *)
(* stream (a leaf) or a nested sequence.                                   *)

Leaf(value) == [leaf |-> TRUE, value |-> value, items |-> <<>>]
Nested(items) == [leaf |-> FALSE, value |-> <<>>, items |-> items]

\* str.strip, of blanks
RECURSIVE LStrip(_)
LStrip(string) ==
    IF string # <<>> /\ Head(string) = " " THEN LStrip(Tail(string)) ELSE string
Strip(string) == Reverse(LStrip(Reverse(LStrip(string))))

\* value.strip()=="" or value.strip().startswith("#")
Skipped(value) == Strip(value) = <<>> \/ StartsWith(Strip(value), <<"#">>)

\* stack[-1].append(item)
AppendToTop(stack, item) == [stack EXCEPT ![Len(stack)] = Append(@, item)]

\* the promoted element is copied, not popped
PushCopy(stack) ==
    IF Last(stack) = <<>> THEN IndexError
    ELSE [kind |-> "stack", stack |-> Append(stack, <<Last(Last(stack))>>)]

\* stack.append([stack[-1].pop()]); IndexError when the top sequence is empty
Push(stack) ==
    IF Last(stack) = <<>> THEN IndexError
    ELSE [kind |-> "stack",
          stack |-> Append([stack EXCEPT ![Len(stack)] = Front(@)], <<Last(Last(stack))>>)]

\* s = stack.pop(); stack[-1].append(s); IndexError when nothing is left
Close(stack) ==
    IF Len(stack) = 1 THEN IndexError
    ELSE [kind |-> "stack", stack |-> AppendToTop(Front(stack), Nested(Last(stack)))]

\* the for loop of parseindents from line i on
RECURSIVE Events(_, _, _)
Events(lines, i, stack) ==
    IF i > Len(lines) THEN [kind |-> "ok", tree |-> stack[1]]
    ELSE IF lines[i] = <<>> THEN IndexError
    ELSE LET event == Head(lines[i])
             value == Tail(lines[i])
             next == IF event = "=" THEN
                         [kind |-> "stack",
                          stack |-> IF Skipped(value) THEN stack
                                    ELSE AppendToTop(stack, Leaf(value))]
                     ELSE IF event = ">" THEN Push(stack)
                     ELSE IF event = "<" THEN Close(stack)
                     ELSE Exception
         IN IF next.kind # "stack" THEN next ELSE Events(lines, i + 1, next.stack)

\* parseindents, on the pieces f.split("\n") cuts the stream into: the last
\* piece is dropped
parseindents(pieces) == Events(Front(pieces), 1, <<<<>>>>)

\* the longest stream, in lines
MaxLines == 7

\* the values of the content lines, one per line number
Letters == <<"a", "b", "c", "d", "e", "f", "g", "h", "i", "j">>

Kinds == {"content", "blank", "comment", "push", "pop", "other"}

LineOf(kind, i) ==
    CASE kind = "content" -> <<"=", Letters[i]>>
      [] kind = "blank" -> <<"=", " ">>
      [] kind = "comment" -> <<"=", " ", "#", Letters[i]>>
      [] kind = "push" -> <<">">>
      [] kind = "pop" -> <<"<">>
      [] OTHER -> <<"?">>

\* a stream that ends with a newline: the piece after it is empty
InitIndent ==
    /\ \E k \in 0..MaxLines :
          \E kinds \in [1..k -> Kinds] :
             f = [i \in 1..k |-> LineOf(kinds[i], i)] \o <<<<>>>>
    /\ tree = None
    /\ pc = "stream"
    /\ atoms = <<>> /\ parenttask = None /\ entity = None
    /\ ents = <<>> /\ d = <<>> /\ queue = <<>> /\ lst = <<>> /\ flat = {}
    /\ pass = 1 /\ file = <<>> /\ first = <<>> /\ shown = <<>>

CallParseIndents ==
    /\ pc = "stream"
    /\ tree' = parseindents(f)
    /\ pc' = "parseindents"
    /\ UNCHANGED <<ents, d, queue, lst, flat, pass, file, first, shown, atoms, parenttask, entity, f>>

NextIndent == CallParseIndents

SpecIndent == InitIndent /\ [][NextIndent]_vars

---------------------------------------------------------------------------
(* Properties of the normaliser.                                           *)

Entities == 1..Len(ents)

\* how often e occurs in p.subtasks
Occurrences(p, e) == Cardinality({i \in 1..Len(ents[p].subtasks) : ents[p].subtasks[i] = e})

\* the work queue loop of the run of main has ended
LoopEnded == pass = 1 /\ pc \in {"parsed", "flat", "done", "hang"}

\* C1: after readfile, flatten and normalize_goals, every entity with a
\* non-empty goals chain has a parent, and the parent's description is the
\* last element of the chain, whatever the length of the chain.
C1_ParentIsLastGoal ==
    (pass = 1 /\ pc = "done") =>
        \A e \in flat :
            ents[e].goals # <<>> =>
                /\ ents[e].parent # 0
                /\ ents[ents[e].parent].description = immediate_goal(ents[e])

\* C2: the normaliser applied to the list a first application returned ends
\* and leaves every entity's parent and goals chain as they were.
C2_Idempotent ==
    pass = 2 =>
        /\ pc # "hang"
        /\ pc \in {"flat", "done"} =>
              \A e \in 1..Len(first) : ents[e].parent = first[e].parent
        /\ pc = "done" =>
              /\ Len(ents) = Len(first)
              /\ \A e \in 1..Len(first) : ents[e].goals = first[e].goals

\* line i's chain is realised: each reason has an entity, the task's parent
\* is the first-written reason, each reason's parent is the next reason
Realized(i) ==
    LET r == file[i].reasons
    IN /\ \A j \in 1..Len(r) : d[r[j]] # 0
       /\ Len(r) >= 1 => ents[i].parent = d[r[1]]
       /\ \A j \in 1..(Len(r) - 1) : ents[d[r[j]]].parent = d[r[j + 1]]

\* the (description, immediate parent) pairs the lines of the file declare
Declared(lines) ==
    UNION {  {<<lines[i].description, lines[i].reasons[1]>> : j \in {1} \cap DOMAIN lines[i].reasons}
             \cup {<<lines[i].reasons[j], lines[i].reasons[j + 1]>> : j \in 1..(Len(lines[i].reasons) - 1)}
           : i \in 1..Len(lines) }

\* no description is declared two different immediate parents
Consistent(lines) == \A x, y \in Declared(lines) : x[1] = y[1] => x[2] = y[2]

C4_LongestChain ==
    (pass = 1 /\ pc = "parsed") =>
        \A v \in Entities :
            ents[v].goals # <<>> =>
                /\ d[Last(ents[v].goals)] # 0
                /\ Len(ents[d[Last(ents[v].goals)]].goals) >= Len(ents[v].goals) - 1

\* two entities name the same immediate goal with prefixes of different
\* lengths, and the goal was processed again after its chain grew
C4_Witness ==
    /\ pass = 1 /\ pc = "parsed"
    /\ Len(lst) > Len(ents)
    /\ \E v, w \in Entities :
          /\ ents[v].goals # <<>> /\ ents[w].goals # <<>>
          /\ Last(ents[v].goals) = Last(ents[w].goals)
          /\ Len(ents[v].goals) > Len(ents[w].goals)
          /\ Len(ents[d[Last(ents[v].goals)]].goals) = Len(ents[v].goals) - 1

\* the longest chain a line of the file declares
LongestDeclared == CHOOSE m \in 0..MaxClauses + 1 :
    /\ \A i \in 1..Len(file) : Len(file[i].reasons) <= m
    /\ \E i \in 1..Len(file) : Len(file[i].reasons) = m

\* the descriptions the file's clauses name
Reasons == UNION {Range(file[i].reasons) : i \in 1..Len(file)}

\* C5: the work queue loop ends on every file, cyclic ones included; an
\* entity is put back on the queue only with a strictly longer chain, no
\* chain is longer than the longest declared one, and no more goals are
\* made than the file names reasons.
C5_Fixpoint ==
    /\ <>(pc # "loop")
    /\ [](pc \in {"loop", "parsed"} =>
            \A e \in Entities : Len(ents[e].goals) <= LongestDeclared)
    /\ [](Cardinality({e \in Entities : ents[e].kind = "Goal"}) <= Cardinality(Reasons))
    /\ [][pc = "loop" =>
            \A e \in Entities :
                (e \notin Range(Front(queue)) /\ e \in Range(queue'))
                    => Len(ents'[e].goals) > Len(ents[e].goals)]_vars

\* the loop has ended on a file whose parent links run in a cycle, after an
\* entity was put back on the queue
C5_Witness ==
    /\ pass = 1 /\ pc = "parsed"
    /\ Len(lst) > Len(ents)
    /\ \E n \in Entities : Endless(ents, n)

\* C6: when the loop ends, parent links and subtasks lists describe one
\* forest: a child occurs exactly once in its parent's subtasks and in no
\* other list, a root in none, and no two goals share a description.
C6_SingleParentForest ==
    (pass = 1 /\ pc = "parsed") =>
        /\ \A e, p \in Entities :
              Occurrences(p, e) = (IF ents[e].parent = p THEN 1 ELSE 0)
        /\ \A g, h \in Entities :
              (ents[g].kind = "Goal" /\ ents[h].kind = "Goal"
                 /\ ents[g].description = ents[h].description) => g = h

\* a done Task is among the Task ancestors of the node whose parent is p
RECURSIVE DoneAbove(_, _)
DoneAbove(es, p) ==
    /\ p # 0
    /\ es[p].kind = "Task"
    /\ (StatusDone(es[p].status) \/ DoneAbove(es, es[p].parent))

\* C10: abbreviated yields, in input order, exactly the nodes that are no
\* Task below a done Task, children and deeper descendants alike.
C10_CollapsesSubtrees ==
    pc = "shown" =>
        \A n \in flat :
            n \in Range(shown) <=> ~(ents[n].kind = "Task" /\ DoneAbove(ents, ents[n].parent))

---------------------------------------------------------------------------
(* Properties of the line grammar.                                         *)

\* the reasons of a line in the order written: the word after each
\* "in order to", read from the left, from word i on
RECURSIVE Written(_, _)
Written(words, i) ==
    IF i + 3 > Len(words) THEN <<>>
    ELSE IF SubSeq(words, i, i + 2) = InOrderTo
    THEN <<words[i + 3]>> \o Written(words, i + 4)
    ELSE Written(words, i + 1)

\* Task.parse, called without a parent task, returned a task
ParsedTask == pc = "Task.parse" /\ parenttask = None /\ entity.kind = "Task"

\* C7 as stated: the last-written reason is the nearest goal, goals[-1], and
\* the first-written one the most distant, goals[0].
C7_LastWrittenNearest ==
    (ParsedTask /\ Written(atoms, 3) # <<>>) =>
        /\ Last(entity.goals) = Last(Written(atoms, 3))
        /\ entity.goals[1] = Written(atoms, 3)[1]

\* C7 as amended: the first-written reason is the nearest goal, goals[-1],
\* and the last-written one the most distant, goals[0].
C7_FirstWrittenNearest ==
    (ParsedTask /\ Written(atoms, 3) # <<>>) =>
        /\ Len(entity.goals) = Len(Written(atoms, 3))
        /\ Last(entity.goals) = Written(atoms, 3)[1]
        /\ entity.goals[1] = Last(Written(atoms, 3))

\* a line with two different reasons was parsed
C7_Witness ==
    /\ ParsedTask
    /\ Len(Written(atoms, 3)) = 2
    /\ Written(atoms, 3)[1] # Written(atoms, 3)[2]
    /\ entity.goals = <<Written(atoms, 3)[2], Written(atoms, 3)[1]>>

\* the clauses after the context: "in order to" and a reason, any number of
\* times, then at most one status
RECURSIVE ClauseGrammar(_)
ClauseGrammar(words) ==
    \/ words = <<>>
    \/ Len(words) = 1 /\ Status_instance(words[1])
    \/ Len(words) >= 4 /\ SubSeq(words, 1, 3) = InOrderTo /\ ClauseGrammar(From(words, 4))

\* Do <description> [<context>] (in order to <reason>)* [<status>]
TaskGrammar(words) ==
    /\ Len(words) >= 2
    /\ words[1] = Do
    /\ \/ ClauseGrammar(From(words, 2))
       \/ /\ Len(words) >= 3
          /\ ~Status_instance(words[3])
          /\ Slice(words, 2, 5) # InOrderTo
          /\ ClauseGrammar(From(words, 3))

\* note <text>
NoteGrammar(words) == Len(words) = 2 /\ Lower(words[1]) = <<"n", "o", "t", "e">>

\* C8: a line that matches neither grammar is rejected with ParseException
\* and nothing else, by Task.parse, by Note.parse and by parse.
C8_MalformedRaisesParseException ==
    /\ (pc = "Task.parse" /\ ~TaskGrammar(atoms)) => entity = ParseException
    /\ (pc = "Note.parse" /\ ~NoteGrammar(atoms)) => entity = ParseException
    /\ (pc = "parse" /\ ~TaskGrammar(atoms) /\ ~NoteGrammar(atoms)) => entity = ParseException

\* the grammar above is the one the code accepts: a line is made a Task or a
\* Note exactly when it matches
GrammarAccepted ==
    /\ (pc = "Task.parse" /\ parenttask = None /\ TaskGrammar(atoms)) => entity.kind = "Task"
    /\ (pc = "Note.parse" /\ NoteGrammar(atoms)) => entity.kind = "Note"
    /\ (pc \in {"Task.parse", "parse"} /\ ~TaskGrammar(atoms)) => entity.kind # "Task"
    /\ (pc \in {"Note.parse", "parse"} /\ ~NoteGrammar(atoms)) => entity.kind # "Note"

---------------------------------------------------------------------------
(* Properties of parseindents.                                             *)

\* the lines of the stream
Lines == Front(f)

IsContent(line) == Head(line) = "=" /\ ~Skipped(Tail(line))

\* the open levels after the lines from i on, given the number of elements
\* of each open sequence; 0 when a ">" finds the current sequence empty, a
\* "<" finds no open level, or a line bears another marker
RECURSIVE Levels(_, _, _)
Levels(lines, i, sizes) ==
    IF i > Len(lines) THEN Len(sizes)
    ELSE IF Head(lines[i]) = "=" THEN
        Levels(lines, i + 1,
               IF IsContent(lines[i]) THEN [sizes EXCEPT ![Len(sizes)] = @ + 1] ELSE sizes)
    ELSE IF Head(lines[i]) = ">" /\ Last(sizes) > 0 THEN
        Levels(lines, i + 1, Append([sizes EXCEPT ![Len(sizes)] = @ - 1], 1))
    ELSE IF Head(lines[i]) = "<" /\ Len(sizes) > 1 THEN
        Levels(lines, i + 1, [Front(sizes) EXCEPT ![Len(sizes) - 1] = @ + 1])
    ELSE 0

\* every ">" finds an element to promote and every "<" an open level
WellFormed == Levels(Lines, 1, <<0>>) >= 1
\* and every level is closed when the stream ends
Balanced == Levels(Lines, 1, <<0>>) = 1

\* the values of the content lines, in input order
Contents == LET kept == SelectSeq(Lines, IsContent) IN [i \in 1..Len(kept) |-> Tail(kept[i])]

\* the leaves of a tree, depth first, left to right
RECURSIVE Leaves(_)
Leaves(items) ==
    IF items = <<>> THEN <<>>
    ELSE (IF Head(items).leaf THEN <<Head(items).value>> ELSE Leaves(Head(items).items))
         \o Leaves(Tail(items))

\* the leaves that are the first element of a nested sequence
RECURSIVE Firsts(_)
Firsts(items) ==
    UNION {IF items[i].leaf THEN {}
           ELSE (IF items[i].items # <<>> /\ items[i].items[1].leaf
                 THEN {items[i].items[1].value} ELSE {})
                \cup Firsts(items[i].items)
           : i \in 1..Len(items)}

\* the values promoted by a ">": the content line before it, with nothing
\* but skipped lines between
Promoted ==
    {Tail(Lines[j]) : j \in {j \in 1..Len(Lines) :
        /\ IsContent(Lines[j])
        /\ \E i \in (j + 1)..Len(Lines) :
              /\ Head(Lines[i]) = ">"
              /\ \A m \in (j + 1)..(i - 1) : Head(Lines[m]) = "=" /\ ~IsContent(Lines[m])}}

\* the tree holds every content value once, in order, and the promoted
\* values head the nested sequences
NothingLost ==
    /\ tree.kind = "ok"
    /\ Leaves(tree.tree) = Contents
    /\ Firsts(tree.tree) = Promoted

\* C9 as stated: on a well-formed stream the returned tree loses nothing,
\* whether or not every level is closed when the stream ends.
C9_NoContentLost == (pc = "parseindents" /\ WellFormed) => NothingLost

\* C9 as amended: on a well-formed stream in which every opened level has
\* been closed when the stream ends, the returned tree loses nothing.
C9_NoContentLostIfBalanced == (pc = "parseindents" /\ Balanced) => NothingLost

\* a balanced stream with a nested level, a skipped line and a value after
\* the level was closed
C9_Witness ==
    /\ pc = "parseindents"
    /\ Balanced
    /\ Promoted # {}
    /\ \E i \in 1..Len(Lines) : Head(Lines[i]) = "=" /\ ~IsContent(Lines[i])
    /\ Len(Contents) >= 3
    /\ tree.tree # <<>> /\ Last(tree.tree).leaf
    /\ NothingLost

====
